---- MODULE Spec2Model ----
(***************************************************************************)
(* hello-claw: the human-gated scheduled-task engine (src/mcp/cron.ts),    *)
(* the per-channel async mutex (src/lib/channel-lock.ts), the heartbeat    *)
(* runner and the host's message / reaction handlers.                      *)
(*                                                                         *)
(* One step of the model is one run-to-completion job of the Node event    *)
(* loop: a timer callback, an incoming Slack event, an MCP tool handler    *)
(* up to its first await, or the continuation after an await.  Wall-clock  *)
(* time is abstracted: an armed timer may fire at any later job, but a     *)
(* zero-delay timer fires before a post to Slack begun after it returns.   *)
(***************************************************************************)
EXTENDS Naturals, Sequences, FiniteSets

\* ---------------------------------------------------------------- bounds
NumChannels == 2
MaxTasks == 2        \* task ids generated in one run (taskCounter cap)
MaxRounds == 2       \* cancellation prompts posted per task
MaxMsgs == 1         \* interactive messages in flight per channel
MaxBeats == 1        \* heartbeat runs in flight
SoloTasks == 1       \* tasks scheduled in the two-channel environment
PairChannels == 1    \* channels with traffic in the two-task environment
PairRounds == 1      \* cancellation prompts per task in that environment
MaxDays == 2         \* days for which a cron task's next run is followed
MaxLate == 2         \* checks of the cron timer that run late
LateMs == 250        \* by how much such a check runs late
IntervalMs == 300000 \* the period of the interval task that is followed
MaxWrites == 2       \* GitHub writes requested
NoticeRounds == 1    \* cancellation prompts per task where notices are followed

\* ------------------------------------------------------ program constants
MAX_TASKS_PER_CHANNEL == 10
CheckPeriodMs == 60000
CheckWindowMs == 60000
HeartbeatChannel == 1

Channels == 1..NumChannels
Ids == 1..MaxTasks
ScheduleTypes == {"interval", "cron", "once"}
Actors == {"bot", "human"}
Polarities == {"approve", "reject"}

\* A Slack message ts is unique per posted message.  The approval prompt of
\* task t is named <<t, 0>>, its n-th cancellation prompt <<t, n>>.
PromptIds == Ids \X (0..MaxRounds)
NoTs == <<0, 0>>
WriteIds == 1..MaxWrites
NoWrite == [channelId |-> 0, approvalMessageTs |-> FALSE, approvalTimeout |-> FALSE]

VARIABLES
  tasks,        \* the registry: ids present in the module-level Map `tasks`
  obj,          \* the ScheduledTask objects, by id (timer closures and
                \* suspended handlers keep an object alive after tasks.delete)
  taskCounter,  \* module-level id counter
  locks,        \* channel-lock.ts `locks`: channel -> an entry is present
  waitq,        \* per channel: callers awaiting the current lock promise
  woken,        \* per channel: callers whose await resolved, not yet resumed
  cs,           \* per caller: executions between acquire and release
  notifying,    \* task ids whose execution is in executeTask's catch block,
                \* awaiting the failure notice (the lock is still held)
  posting,      \* tool handlers suspended in chat.postMessage of a prompt
  prompts,      \* Slack: the channel each posted prompt lives in (0: none)
  botUserId,    \* host: botUserId resolved by auth.test
  quiet,        \* per channel: further registered tasks, which take no step
                \* in the behaviours examined (approved, no timer due)
  audit,        \* audit log: the <<event, task id>> entries written by
                \* schedule_task and by the approval expiry
  resolvedTs,   \* history: prompts on which a reaction resolved an item
  selfCancelled,\* history: cancellation prompts of tasks that cancel_self
                \* removed while their cancellation was pending
  exited,       \* host: process.exit was called
  now,          \* the clock (ms since a local midnight) where a cron task's
                \* next-run projection is followed; 0: not followed
  nextRun,      \* that task's nextRun (0: undefined)
  lastFire,     \* history: the instant of the last check that called
                \* executeTask (0: none)
  lates,        \* checks that ran later than their period so far
  pendingWrites,\* github.ts `pendingWrites`: the ids registered
  writeCounter, \* github.ts id counter
  wr,           \* per write id: the PendingWrite object
  wposting,     \* create_issue handlers suspended in chat.postMessage
  executed,     \* history: per write id, the calls of ghExec for its command
  outcome,      \* history: per write id, how it left the registry
  notices,      \* best-effort notices whose chat.postMessage is in flight
  lost          \* history: the notices and cancellation prompts whose post threw

vars == <<tasks, obj, taskCounter, locks, waitq, woken, cs, notifying,
          posting, prompts, botUserId, quiet, audit, resolvedTs,
          selfCancelled, exited, now, nextRun, lastFire, lates,
          pendingWrites, writeCounter, wr, wposting, executed, outcome,
          notices, lost>>

noticeVars == <<notices, lost>>

writeVars == <<pendingWrites, writeCounter, wr, wposting, executed, outcome>>

cronVars == <<now, nextRun, lastFire, lates>>

lockVars == <<locks, waitq, woken, cs>>
histVars == <<resolvedTs, selfCancelled>>

\* ------------------------------------------------------------ task object
\* timer: "unset" (undefined), "live" (references an armed timer) or "dead"
\* (references a timer that fired or was cleared).  approvalTimeout and
\* cancellationTimeout: the field references an armed timeout.  stray counts
\* armed scheduling timers whose handle no field references; strayTimeouts
\* the same for expiry timeouts.  armed (history) counts the startSchedule
\* calls made on the object.
NoTask ==
  [scheduleType |-> "none", channelId |-> 0, status |-> "none",
   isRunning |-> FALSE, timer |-> "unset", stray |-> 0,
   approvalMessageTs |-> NoTs, approvalTimeout |-> FALSE,
   cancellationMessageTs |-> NoTs, cancellationTimeout |-> FALSE,
   strayTimeouts |-> 0, armed |-> 0]

\* a task that would have its schedule running from registration on
NewTaskArmed(type, c) ==
  [NoTask EXCEPT !.scheduleType = type, !.channelId = c,
                 !.status = "pending_approval", !.timer = "live"]

NewTask(type, c) ==
  [NoTask EXCEPT !.scheduleType = type, !.channelId = c,
                 !.status = "pending_approval"]

\* a removal that would leave the scheduling timer armed
NotCleared(h) == h

\* clearTimeout / clearInterval on task.timer
Cleared(h) == IF h = "live" THEN "dead" ELSE h

\* --------------------------------------------------------------- callers
TaskCaller(t) == [kind |-> "task", key |-> t]
MsgCaller(c) == [kind |-> "msg", key |-> c]
BeatCaller == [kind |-> "hb", key |-> 0]
Callers == {TaskCaller(t) : t \in Ids} \cup {MsgCaller(c) : c \in Channels}
             \cup {BeatCaller}

ChannelOf(who) ==
  CASE who.kind = "task" -> obj[who.key].channelId
    [] who.kind = "msg" -> who.key
    [] OTHER -> HeartbeatChannel

RECURSIVE CountIn(_, _)
CountIn(s, who) ==
  IF s = <<>> THEN 0
  ELSE (IF Head(s) = who THEN 1 ELSE 0) + CountIn(Tail(s), who)

RECURSIVE SumOver(_, _)
SumOver(S, f) ==
  IF S = {} THEN 0
  ELSE LET x == CHOOSE y \in S : TRUE IN f[x] + SumOver(S \ {x}, f)

\* executions of `who` parked in acquireChannelLock
Waiting(who) ==
  SumOver(Channels, [c \in Channels |-> CountIn(waitq[c], who) + CountIn(woken[c], who)])
\* executions of `who` between acquire and release
Holding(who) == cs[who]
InFlight(who) == Holding(who) + Waiting(who)
HoldersOf(c) ==
  SumOver({w \in Callers : Holding(w) > 0 /\ ChannelOf(w) = c},
          [w \in Callers |-> Holding(w)])

\* the Agent Runtime query() of `who` is running
Querying(who) ==
  cs[who] > 0 /\ ~(who.kind = "task" /\ who.key \in notifying)

NoMicrotasks == \A c \in Channels : woken[c] = <<>>

\* An object no registry entry, armed timer, execution or suspended handler
\* references is unreachable: the garbage collector reclaims it, and the
\* model keeps NoTask in its place.  o is the object store a step leaves;
\* the other variables are read in the step's successor state.
Collect(o) ==
  [t \in Ids |->
     IF \/ t \in tasks'
        \/ o[t].timer = "live" \/ o[t].stray > 0
        \/ o[t].approvalTimeout \/ o[t].cancellationTimeout
        \/ o[t].strayTimeouts > 0
        \/ cs'[TaskCaller(t)] > 0
        \/ \E c \in Channels :
             CountIn(waitq'[c], TaskCaller(t)) + CountIn(woken'[c], TaskCaller(t)) > 0
        \/ \E p \in posting' : p.id = t
     THEN o[t] ELSE NoTask]

\* the module state after import, given the number of quiet tasks
Started(q) ==
  /\ quiet = q
  /\ audit = {}
  /\ tasks = {}
  /\ obj = [t \in Ids |-> NoTask]
  /\ taskCounter = 0
  /\ locks = [c \in Channels |-> FALSE]
  /\ waitq = [c \in Channels |-> <<>>]
  /\ woken = [c \in Channels |-> <<>>]
  /\ cs = [w \in Callers |-> 0]
  /\ notifying = {}
  /\ posting = {}
  /\ prompts = [p \in PromptIds |-> 0]
  /\ botUserId = FALSE
  /\ resolvedTs = {}
  /\ selfCancelled = {}
  /\ exited = FALSE
  /\ now = 0 /\ nextRun = 0 /\ lastFire = 0 /\ lates = 0
  /\ pendingWrites = {} /\ writeCounter = 0 /\ wposting = {}
  /\ wr = [w \in WriteIds |-> NoWrite]
  /\ executed = [w \in WriteIds |-> 0]
  /\ outcome = [w \in WriteIds |-> "none"]
  /\ notices = {} /\ lost = {}

Init == Started([c \in Channels |-> 0])

\* ------------------------------------------------- lib/channel-lock.ts
\* the loop condition `locks.has(channelId)` on entry ...
MustWait(c) == locks[c]

\* a waiter that would go on as soon as the promise it awaited resolves
NoRecheck(c) == FALSE

\* ... and re-evaluated each time the awaited promise has resolved
MustWaitAgain(c) == locks[c]

\* locks.set(channelId, promise); the caller resumes holding the lock and
\* starts its Agent Runtime query()
TakeLock(c, who) ==
  /\ locks' = [locks EXCEPT ![c] = TRUE]
  /\ cs' = [cs EXCEPT ![who] = @ + 1]

\* an acquire whose wait would be served before the waits begun earlier
acquireAhead(c, who) ==
  IF MustWait(c)
  THEN /\ waitq' = [waitq EXCEPT ![c] = <<who>> \o @]
       /\ UNCHANGED <<locks, woken, cs>>
  ELSE /\ TakeLock(c, who)
       /\ UNCHANGED <<waitq, woken>>

acquireChannelLock(c, who) ==
  IF MustWait(c)
  THEN /\ waitq' = [waitq EXCEPT ![c] = Append(@, who)]
       /\ UNCHANGED <<locks, woken, cs>>
  ELSE /\ TakeLock(c, who)
       /\ UNCHANGED <<waitq, woken>>

\* the callers waiting for channel c in the order they began to wait: those
\* already resumed and awaiting the next promise, then those still to resume
WaitOrder(c) == waitq[c] \o woken[c]

\* a release that would delete the entry and never resolve its promise
DeleteWithoutResolve(c) ==
  /\ locks' = [locks EXCEPT ![c] = FALSE]
  /\ UNCHANGED <<woken, waitq>>

\* the returned release function: locks.delete(channelId); release() resolves
\* the promise, which queues every waiter of it, in the order they awaited
releaseLock(c) ==
  /\ locks' = [locks EXCEPT ![c] = FALSE]
  /\ woken' = [woken EXCEPT ![c] = @ \o waitq[c]]
  /\ waitq' = [waitq EXCEPT ![c] = <<>>]

\* a waiter resumes after `await locks.get(channelId)` (a microtask)
Wake(c) ==
  /\ woken[c] # <<>>
  /\ LET who == Head(woken[c]) IN
       /\ woken' = [woken EXCEPT ![c] = Tail(@)]
       /\ IF MustWaitAgain(c)
          THEN /\ waitq' = [waitq EXCEPT ![c] = Append(@, who)]
               /\ UNCHANGED <<locks, cs>>
          ELSE /\ TakeLock(c, who)
               /\ UNCHANGED waitq
  /\ UNCHANGED <<tasks, obj, taskCounter, posting, prompts, botUserId, quiet, audit, notifying, histVars>>

\* ------------------------------------------------- host: app.message
\* the handler up to `await acquireChannelLock(channelId)`
MessageArrives(c) ==
  /\ NoMicrotasks
  /\ InFlight(MsgCaller(c)) < MaxMsgs
  /\ acquireChannelLock(c, MsgCaller(c))
  /\ UNCHANGED <<tasks, obj, taskCounter, posting, prompts, botUserId, quiet, audit, notifying, histVars>>

\* ------------------------------------------------- lib/heartbeat.ts
runHeartbeat ==
  /\ NoMicrotasks
  /\ InFlight(BeatCaller) < MaxBeats
  /\ acquireChannelLock(HeartbeatChannel, BeatCaller)
  /\ UNCHANGED <<tasks, obj, taskCounter, posting, prompts, botUserId, quiet, audit, notifying, histVars>>

\* ------------------------------------------------- cron.ts executeTask
\* an entry guard that would let a tick through while a run is in flight
NeverSkip(r) == FALSE

\* the entry guard `if (task.isRunning) return`
SkipTick(r) == r.isRunning

\* executeTask up to `await acquireChannelLock`: the lock side ...
executeTask(t, r) ==
  IF SkipTick(r) THEN UNCHANGED lockVars
  ELSE acquireChannelLock(r.channelId, TaskCaller(t))

\* ... and the object side (`task.isRunning = true`)
Entered(r) == IF SkipTick(r) THEN r ELSE [r EXCEPT !.isRunning = TRUE]

\* a `finally` block that would leave a once task registered
FinishKeepingOnce(who) ==
  /\ cs' = [cs EXCEPT ![who] = @ - 1]
  /\ releaseLock(ChannelOf(who))
  /\ UNCHANGED <<tasks, posting>>
  /\ obj' = Collect(IF who.kind = "task"
                    THEN [obj EXCEPT ![who.key].isRunning = FALSE] ELSE obj)

\* the `finally` block of a caller that holds the lock: release; for a task
\* also isRunning = false and the removal of a once task
Finish(who) ==
  /\ cs' = [cs EXCEPT ![who] = @ - 1]
  /\ releaseLock(ChannelOf(who))
  /\ tasks' = IF who.kind = "task" /\ obj[who.key].scheduleType = "once"
              THEN tasks \ {who.key} ELSE tasks
  /\ UNCHANGED posting
  /\ obj' = Collect(IF who.kind = "task"
                    THEN [obj EXCEPT ![who.key].isRunning = FALSE] ELSE obj)

\* query() returns; for the interactive handler and the heartbeat also: it
\* throws and their catch block has settled.  The lock is held until then,
\* and `finally` runs
QueryReturns(who) ==
  /\ NoMicrotasks
  /\ Querying(who)
  /\ Finish(who)
  /\ UNCHANGED <<taskCounter, prompts, botUserId, quiet, audit, notifying, histVars>>

\* the try block of executeTask throws (query() or the code around it): the
\* catch block logs and awaits the failure notice, the lock still held
QueryThrows(t) ==
  /\ NoMicrotasks
  /\ Querying(TaskCaller(t))
  /\ notifying' = notifying \cup {t}
  /\ UNCHANGED <<tasks, obj, taskCounter, lockVars, posting, prompts,
                 botUserId, quiet, audit, histVars>>

\* a catch block without the inner try and a cleanup that is not in `finally`:
\* a failure notice that throws would end the run with the lock still held
NotifyDoneUnguarded(t, ok) ==
  /\ NoMicrotasks
  /\ t \in notifying
  /\ ok \in BOOLEAN
  /\ notifying' = notifying \ {t}
  /\ IF ok
     THEN Finish(TaskCaller(t))
     ELSE /\ cs' = [cs EXCEPT ![TaskCaller(t)] = @ - 1]
          /\ UNCHANGED <<locks, waitq, woken, tasks, posting>>
          /\ obj' = Collect(obj)
  /\ UNCHANGED <<taskCounter, prompts, botUserId, quiet, audit, histVars>>

\* a failure path that would deregister the task and disarm its timer
NotifyDoneDeregisters(t, ok) ==
  /\ NoMicrotasks
  /\ t \in notifying
  /\ ok \in BOOLEAN
  /\ notifying' = notifying \ {t}
  /\ cs' = [cs EXCEPT ![TaskCaller(t)] = @ - 1]
  /\ releaseLock(ChannelOf(TaskCaller(t)))
  /\ tasks' = tasks \ {t}
  /\ UNCHANGED posting
  /\ obj' = Collect([obj EXCEPT ![t].isRunning = FALSE,
                                ![t].timer = Cleared(@)])
  /\ UNCHANGED <<taskCounter, prompts, botUserId, quiet, audit, histVars>>

\* the failure notice settles; ok: postMessage resolved, otherwise it threw
\* and the inner `catch {}` swallowed it.  Either way `finally` runs
NotifyDone(t, ok) ==
  /\ NoMicrotasks
  /\ t \in notifying
  /\ ok \in BOOLEAN
  /\ Finish(TaskCaller(t))
  /\ notifying' = notifying \ {t}
  /\ UNCHANGED <<taskCounter, prompts, botUserId, quiet, audit, histVars>>

\* ------------------------------------------------- cron.ts startSchedule
\* past: the once target instant is not after Date.now() (delay <= 0); the
\* handle of that setTimeout(..., 0) is not stored.  Overwriting task.timer
\* while it references an armed timer leaves that timer armed, unreferenced.
startSchedule(r, past) ==
  IF r.scheduleType = "once" /\ past
  THEN [r EXCEPT !.stray = @ + 1, !.armed = @ + 1]
  ELSE [r EXCEPT !.timer = "live", !.armed = @ + 1,
                 !.stray = @ + (IF r.timer = "live" THEN 1 ELSE 0)]

\* a status test that would let only active tasks tick
TickOnlyActive(r) == r.status = "active"

\* the status test of the interval and cron callbacks
TickAllowed(r) == r.status \in {"active", "pending_cancellation"}

\* whether the callback of a scheduling timer calls executeTask; due: the
\* cron check finds the next occurrence inside its 60 s window
Fires(r, due) ==
  CASE r.scheduleType = "interval" -> TickAllowed(r)
    [] r.scheduleType = "cron" -> TickAllowed(r) /\ due
    [] OTHER -> TRUE

\* the callback of a scheduling timer runs on the object r
TimerCallback(t, r, due) ==
  IF Fires(r, due)
  THEN /\ executeTask(t, r)
       /\ UNCHANGED <<tasks, posting>>
       /\ obj' = Collect([obj EXCEPT ![t] = Entered(r)])
  ELSE /\ UNCHANGED <<lockVars, tasks, posting>>
       /\ obj' = Collect([obj EXCEPT ![t] = r])

\* the timer referenced by task.timer fires (a setTimeout is spent by it)
TimerFires(t) ==
  /\ NoMicrotasks
  /\ obj[t].timer = "live"
  /\ \E due \in BOOLEAN :
       /\ obj[t].scheduleType # "cron" => due
       /\ TimerCallback(t, IF obj[t].scheduleType = "once"
                           THEN [obj[t] EXCEPT !.timer = "dead"] ELSE obj[t], due)
  /\ UNCHANGED <<taskCounter, prompts, botUserId, quiet, audit, notifying, histVars>>

\* a timer whose handle was not kept fires (the once task armed in the past)
StrayTimerFires(t) ==
  /\ NoMicrotasks
  /\ obj[t].stray > 0
  /\ TimerCallback(t, [obj[t] EXCEPT !.stray = @ - 1], TRUE)
  /\ UNCHANGED <<taskCounter, prompts, botUserId, quiet, audit, notifying, histVars>>

\* ------------------------------------- cron.ts exported approval helpers
\* Map iteration is insertion order, which is id order
FirstOf(S) == IF S = {} THEN 0 ELSE CHOOSE t \in S : \A u \in S : t <= u

findPendingTaskByMessageTs(c, ts) ==
  FirstOf({t \in tasks : /\ obj[t].channelId = c
                         /\ obj[t].approvalMessageTs = ts
                         /\ obj[t].status = "pending_approval"})

\* a lookup that would compare the handle and the status only
findCancellationInAnyChannel(c, ts) ==
  FirstOf({t \in tasks : /\ obj[t].cancellationMessageTs = ts
                         /\ obj[t].status = "pending_cancellation"})

findPendingCancellationByMessageTs(c, ts) ==
  FirstOf({t \in tasks : /\ obj[t].channelId = c
                         /\ obj[t].cancellationMessageTs = ts
                         /\ obj[t].status = "pending_cancellation"})

\* the guards of the helpers: `!task || task.status !== ...` returns
IsPendingApproval(t) == t \in tasks /\ obj[t].status = "pending_approval"
IsPendingCancellation(t) == t \in tasks /\ obj[t].status = "pending_cancellation"

\* an activation that would leave the approval expiry armed
ActivatedKeepingTimeout(r, past) ==
  startSchedule([r EXCEPT !.status = "active"], past)

\* the object after activateTask's updates
Activated(r, past) ==
  startSchedule([r EXCEPT !.approvalTimeout = FALSE, !.status = "active"], past)

\* a clearing that would leave the cancellation expiry armed
ClearedButCancellation(r) ==
  [r EXCEPT !.timer = Cleared(@), !.approvalTimeout = FALSE]

\* every handle of the object cleared
AllCleared(r) ==
  [r EXCEPT !.timer = Cleared(@), !.approvalTimeout = FALSE,
            !.cancellationTimeout = FALSE]

\* a rejection that would disarm the expiry but leave the item pending
CancellationStillPending(r) == [r EXCEPT !.cancellationTimeout = FALSE]

\* the object after rejectCancellation's updates
CancellationRejected(r) ==
  [r EXCEPT !.cancellationTimeout = FALSE, !.cancellationMessageTs = NoTs,
            !.status = "active"]

activateTask(t, past) ==
  IF IsPendingApproval(t)
  THEN /\ UNCHANGED tasks
       /\ obj' = Collect([obj EXCEPT ![t] = Activated(@, past)])
  ELSE UNCHANGED <<tasks, obj>>

rejectTask(t) ==
  IF IsPendingApproval(t)
  THEN /\ tasks' = tasks \ {t}
       /\ obj' = Collect([obj EXCEPT ![t].approvalTimeout = FALSE])
  ELSE UNCHANGED <<tasks, obj>>

confirmCancellation(t) ==
  IF IsPendingCancellation(t)
  THEN /\ tasks' = tasks \ {t}
       /\ obj' = Collect([obj EXCEPT ![t] = AllCleared(@)])
  ELSE UNCHANGED <<tasks, obj>>

rejectCancellation(t) ==
  IF IsPendingCancellation(t)
  THEN /\ UNCHANGED tasks
       /\ obj' = Collect([obj EXCEPT ![t] = CancellationRejected(@)])
  ELSE UNCHANGED <<tasks, obj>>

\* ------------------------------------------- host: reaction_added handler
\* `botUserId && event.user === botUserId`
SelfReaction(actor) == botUserId /\ actor = "bot"

\* the bot reacts only through the add_reaction tool, which every running
\* query (interactive, scheduled, heartbeat) has for its own channel
CanReact(c, actor) ==
  actor = "bot" => \E who \in Callers : Querying(who) /\ ChannelOf(who) = c

\* a reaction on the posted prompt ts, which lives in channel prompts[ts]
reaction_added(ts, actor, pol, past) ==
  /\ NoMicrotasks
  /\ prompts[ts] # 0
  /\ CanReact(prompts[ts], actor)
  /\ UNCHANGED <<taskCounter, lockVars, posting, prompts, botUserId, quiet, audit, notifying,
                 selfCancelled>>
  /\ LET pendingTask == findPendingTaskByMessageTs(prompts[ts], ts)
         cancellingTask == findPendingCancellationByMessageTs(prompts[ts], ts)
     IN  IF SelfReaction(actor) \/ (pendingTask = 0 /\ cancellingTask = 0)
         THEN UNCHANGED <<tasks, obj, resolvedTs>>
         ELSE /\ resolvedTs' = resolvedTs \cup {ts}
              /\ IF pendingTask # 0
                 THEN IF pol = "approve" THEN activateTask(pendingTask, past)
                      ELSE rejectTask(pendingTask)
                 ELSE IF pol = "approve" THEN confirmCancellation(cancellingTask)
                      ELSE rejectCancellation(cancellingTask)

\* startup: auth.test resolves the bot's user id (on failure it stays unset)
authTest ==
  /\ NoMicrotasks
  /\ ~botUserId
  /\ botUserId' = TRUE
  /\ UNCHANGED <<tasks, obj, taskCounter, lockVars, notifying, posting, prompts,
                 quiet, audit, histVars>>

\* ------------------------------------------ cron.ts schedule values
\* A duration text is the sequence of its <digits><letter> groups; a group
\* with u = "" is digits followed by no letter.  "1h30m" is
\* <<Part(1, "h"), Part(30, "m")>>, "300000" is <<Part(300000, "")>>.
Part(n, u) == [n |-> n, u |-> u]

\* the place of a unit letter in /^(?:(\d+)h)?(?:(\d+)m)?(?:(\d+)s)?$/i
UnitRank(u) ==
  CASE u \in {"h", "H"} -> 1
    [] u \in {"m", "M"} -> 2
    [] u \in {"s", "S"} -> 3
    [] OTHER -> 0

UnitMs(u) ==
  CASE UnitRank(u) = 1 -> 3600000
    [] UnitRank(u) = 2 -> 60000
    [] UnitRank(u) = 3 -> 1000
    [] OTHER -> 0

RECURSIVE SumMs(_)
SumMs(text) ==
  IF text = <<>> THEN 0
  ELSE Head(text).n * UnitMs(Head(text).u) + SumMs(Tail(text))

\* parseDuration: raw milliseconds, or hours, minutes, seconds in that
\* order, each at most once and at least one of them; otherwise null
parseDuration(text) ==
  IF Len(text) = 1 /\ text[1].u = ""
  THEN [null |-> FALSE, ms |-> text[1].n]
  ELSE IF /\ Len(text) > 0
          /\ \A i \in 1..Len(text) : UnitRank(text[i].u) > 0
          /\ \A i, j \in 1..Len(text) :
               i < j => UnitRank(text[i].u) < UnitRank(text[j].u)
       THEN [null |-> FALSE, ms |-> SumMs(text)]
       ELSE [null |-> TRUE, ms |-> 0]

\* a test that would reject only what does not parse
RejectedIfNull(d) == d.null

\* `!ms || ms < 60_000` on the result of parseDuration
Rejected(d) == d.null \/ d.ms = 0 \/ d.ms < 60000

\* A schedule value: form "text" is a duration text, form "in" is "in "
\* followed by one, form "expr" a cron expression and form "stamp" a
\* timestamp; parses: CronExpressionParser.parse does not throw, resp. the
\* Date built from the timestamp is not NaN
Value(form, text, parses) == [form |-> form, text |-> text, parses |-> parses]

\* parseOnceSchedule returns an error
OnceError(v) ==
  IF v.form = "in" THEN Rejected(parseDuration(v.text)) ELSE ~v.parses

\* schedule_task returns a validation error
ValidationError(type, v) ==
  CASE type = "cron" -> ~v.parses
    [] type = "interval" -> Rejected(parseDuration(v.text))
    [] OTHER -> OnceError(v)

\* the duration texts tried: "", "0", "59999", "60000", "61000", "30s",
\* "60s", "90s", "1m", "0m", "5m", "1h30m", "30m1h", "1d", "1H"
DurationTexts ==
  { <<>>, <<Part(0, "")>>, <<Part(59999, "")>>, <<Part(60000, "")>>,
    <<Part(61000, "")>>,
    <<Part(30, "s")>>, <<Part(60, "s")>>, <<Part(90, "s")>>,
    <<Part(1, "m")>>, <<Part(0, "m")>>, <<Part(5, "m")>>,
    <<Part(1, "h"), Part(30, "m")>>, <<Part(30, "m"), Part(1, "h")>>,
    <<Part(1, "d")>>, <<Part(1, "H")>> }

\* the relative delays tried: "in 0", "in 30s", "in 1m", "in 1d", "in 2h"
RelativeTexts ==
  { <<Part(0, "")>>, <<Part(30, "s")>>, <<Part(1, "m")>>, <<Part(1, "d")>>,
    <<Part(2, "h")>> }

\* the <<schedule_type, schedule_value>> arguments tried
ScheduleInputs ==
  ({"cron"} \X {Value("expr", <<>>, ok) : ok \in BOOLEAN})
  \cup ({"interval"} \X {Value("text", d, FALSE) : d \in DurationTexts})
  \cup ({"once"} \X ({Value("in", d, FALSE) : d \in RelativeTexts}
                      \cup {Value("stamp", <<>>, ok) : ok \in BOOLEAN}))

\* the arguments that pass the validation
ValidInputs == {in \in ScheduleInputs : ~ValidationError(in[1], in[2])}

\* ------------------------- cron.ts formatDuration, formatScheduleDescription
\* Math.round(a / b) for a >= 0, b > 0
Round(a, b) == (2 * a + b) \div (2 * b)

\* a printed duration: "H hour(s)" and "HhMm" (form "hours"), "M minute(s)"
\* (form "minutes"), "S second(s)" (form "seconds"), by its numbers
Printed(form, h, m, sec) == [form |-> form, h |-> h, m |-> m, s |-> sec]

formatDuration(ms) ==
  IF ms >= 3600000
  THEN IF ms % 3600000 = 0
       THEN Printed("hours", ms \div 3600000, 0, 0)
       ELSE Printed("hours", ms \div 3600000, Round(ms % 3600000, 60000), 0)
  ELSE IF ms >= 60000
       THEN Printed("minutes", 0, Round(ms, 60000), 0)
       ELSE Printed("seconds", 0, 0, Round(ms, 1000))

\* the duration a printed duration denotes, in milliseconds
Denoted(d) == d.h * 3600000 + d.m * 60000 + d.s * 1000

\* `normalizedValue = String(ms)`: the decimal digits of the milliseconds
normalizedValue(ms) == <<Part(ms, "")>>

\* the description of a schedule; the once and cron descriptions keep the
\* value as it is
formatScheduleDescription(type, v) ==
  IF type = "interval"
  THEN LET d == parseDuration(v.text)
       IN  IF d.null \/ d.ms = 0
           THEN [form |-> "interval", value |-> v]
           ELSE [form |-> "every", dur |-> formatDuration(d.ms)]
  ELSE [form |-> type, value |-> v]

\* ------------------------------------------------ cron.ts schedule_task
ChannelTaskCount(c) ==
  Cardinality({t \in tasks : obj[t].channelId = c}) + quiet[c]

\* no limit test at all
NoLimit(c) == FALSE

\* a limit test that would let one task too many through
BeyondCapacity(c) == ChannelTaskCount(c) > MAX_TASKS_PER_CHANNEL

\* `channelTaskCount >= MAX_TASKS_PER_CHANNEL`
AtCapacity(c) == ChannelTaskCount(c) >= MAX_TASKS_PER_CHANNEL

\* the handler up to `await chat.postMessage` of the approval prompt
schedule_task(c, type, v) ==
  /\ NoMicrotasks
  /\ Querying(MsgCaller(c))
  /\ taskCounter < MaxTasks
  /\ UNCHANGED <<lockVars, prompts, botUserId, quiet, audit, notifying, histVars>>
  /\ IF ValidationError(type, v) \/ AtCapacity(c)
     THEN UNCHANGED <<tasks, obj, taskCounter, posting>>
     ELSE /\ taskCounter' = taskCounter + 1
          /\ tasks' = tasks \cup {taskCounter + 1}
          /\ posting' = posting \cup
               {[op |-> "schedule", id |-> taskCounter + 1, by |-> c]}
          /\ obj' = Collect([obj EXCEPT ![taskCounter + 1] = NewTask(type, c)])

\* the object once the approval prompt is posted: handle stored, expiry armed
ApprovalPosted(r, ts) ==
  [r EXCEPT !.approvalMessageTs = ts, !.approvalTimeout = TRUE,
            !.strayTimeouts = @ + (IF r.approvalTimeout THEN 1 ELSE 0)]

\* a catch block that would report the error but leave the task registered
KeptAfterFailedPost(id) == tasks

\* the catch block of the approval post: `tasks.delete(task.id)`
RemovedAfterFailedPost(id) == tasks \ {id}

\* the handler after the await: the prompt was posted, or the post threw
schedule_task_posted(p, ok) ==
  /\ NoMicrotasks
  /\ p \in posting /\ p.op = "schedule"
  /\ posting' = posting \ {p}
  /\ UNCHANGED <<taskCounter, lockVars, botUserId, quiet, notifying, histVars>>
  /\ IF ok
     THEN /\ prompts' = [prompts EXCEPT ![<<p.id, 0>>] = p.by]
          /\ audit' = audit \cup {<<"cron_task_requested", p.id>>}
          /\ UNCHANGED tasks
          /\ obj' = Collect([obj EXCEPT ![p.id] = ApprovalPosted(@, <<p.id, 0>>)])
     ELSE /\ tasks' = RemovedAfterFailedPost(p.id)
          /\ UNCHANGED <<prompts, audit>>
          /\ obj' = Collect(obj)

\* an expiry that would log and notify but keep the registry entry
ExpiredButKept(t) == tasks

\* the registry after the approvalTimeout callback: `tasks.delete(task.id)`
\* unless the status is no longer pending_approval
ExpiredApproval(t) ==
  IF obj[t].status = "pending_approval" THEN tasks \ {t} ELSE tasks

\* the approvalTimeout callback: nothing unless the status is still
\* pending_approval; otherwise tasks.delete and the expiry audit entry
ApprovalTimeoutFires(t) ==
  /\ NoMicrotasks
  /\ obj[t].approvalTimeout
  /\ tasks' = ExpiredApproval(t)
  /\ audit' = IF obj[t].status = "pending_approval"
              THEN audit \cup {<<"cron_task_expired", t>>} ELSE audit
  /\ UNCHANGED <<taskCounter, lockVars, posting, prompts, botUserId, quiet,
                 notifying, histVars>>
  /\ obj' = Collect([obj EXCEPT ![t].approvalTimeout = FALSE])

\* -------------------------------------------------- cron.ts cancel_task
\* cancellation prompts posted so far for task t
Rounds(t) == Cardinality({n \in 1..MaxRounds : prompts[<<t, n>>] # 0})

\* a test that would refuse only unknown ids
RefusedIfUnknown(id) == id \notin tasks

\* the not-found and the already-pending error returns
Refused(id) == id \notin tasks \/ obj[id].status = "pending_cancellation"

\* the handler up to `await chat.postMessage` of the cancellation prompt;
\* tasks.get(args.task_id) looks the id up in the one registry of all channels
cancel_task(c, id) ==
  /\ NoMicrotasks
  /\ Querying(MsgCaller(c))
  /\ UNCHANGED <<taskCounter, lockVars, prompts, botUserId, quiet, audit, notifying, histVars>>
  /\ IF Refused(id)
     THEN UNCHANGED <<tasks, obj, posting>>
     ELSE IF obj[id].status = "pending_approval"
     THEN /\ tasks' = tasks \ {id}
          /\ UNCHANGED posting
          /\ obj' = Collect([obj EXCEPT ![id].timer = Cleared(@),
                                        ![id].approvalTimeout = FALSE])
     ELSE /\ posting' = posting \cup {[op |-> "cancel", id |-> id, by |-> c]}
          /\ UNCHANGED tasks
          /\ obj' = Collect([obj EXCEPT ![id].status = "pending_cancellation"])

\* the object once the cancellation prompt is posted
CancellationPosted(r, ts) ==
  [r EXCEPT !.cancellationMessageTs = ts, !.cancellationTimeout = TRUE,
            !.strayTimeouts = @ + (IF r.cancellationTimeout THEN 1 ELSE 0)]

\* a catch block that would report the error and leave the status as it is
NotReverted(r) == r

\* the catch block of the cancellation post: `task.status = 'active'`
Reverted(r) == [r EXCEPT !.status = "active"]

\* the handler after the await: the prompt was posted (in the channel of the
\* tool server that was called), or the post threw.  The post began after
\* the task was activated, so a setTimeout(..., 0) armed by that activation
\* has fired by the time the round trip to Slack is over
cancel_task_posted(p, ok) ==
  /\ NoMicrotasks
  /\ p \in posting /\ p.op = "cancel"
  /\ obj[p.id].stray = 0
  /\ posting' = posting \ {p}
  /\ UNCHANGED <<tasks, taskCounter, lockVars, botUserId, quiet, audit, notifying, histVars>>
  /\ IF ok
     THEN /\ Rounds(p.id) < MaxRounds
          /\ prompts' = [prompts EXCEPT ![<<p.id, Rounds(p.id) + 1>>] = p.by]
          /\ obj' = Collect([obj EXCEPT ![p.id] =
                       CancellationPosted(@, <<p.id, Rounds(p.id) + 1>>)])
     ELSE /\ UNCHANGED prompts
          /\ obj' = Collect([obj EXCEPT ![p.id] = Reverted(@)])

\* an expiry that would put the task back before its approval
ExpiredBackToPending(r) ==
  IF r.status # "pending_cancellation"
  THEN [r EXCEPT !.cancellationTimeout = FALSE]
  ELSE [r EXCEPT !.status = "pending_approval", !.cancellationMessageTs = NoTs,
                 !.cancellationTimeout = FALSE]

\* the object after the cancellationTimeout callback
CancellationExpired(r) ==
  IF r.status # "pending_cancellation"
  THEN [r EXCEPT !.cancellationTimeout = FALSE]
  ELSE [r EXCEPT !.status = "active", !.cancellationMessageTs = NoTs,
                 !.cancellationTimeout = FALSE]

CancellationTimeoutFires(t) ==
  /\ NoMicrotasks
  /\ obj[t].cancellationTimeout
  /\ UNCHANGED <<tasks, taskCounter, lockVars, posting, prompts, botUserId, quiet, audit, notifying,
                 histVars>>
  /\ obj' = Collect([obj EXCEPT ![t] = CancellationExpired(@)])

\* -------------------------------------------------- cron.ts list_tasks
\* the label list_tasks prints for a status
statusLabel(st) ==
  CASE st = "pending_approval" -> "awaiting approval"
    [] st = "pending_cancellation" -> "cancelling (awaiting approval)"
    [] OTHER -> st

\* one line of the listing: id, schedule and status label (the schedule
\* value and the next-run instant are not part of the task state here)
TaskLine(t) ==
  [id |-> t, schedule |-> obj[t].scheduleType, status |-> statusLabel(obj[t].status)]

\* list_tasks of the tool server of an interactive query in channel c: it
\* maps over tasks.values() and never reads its channelId
list_tasks(c) == {TaskLine(t) : t \in tasks}

\* list_tasks of the scoped server of a scheduled run in channel c
scoped_list_tasks(c) == {TaskLine(t) : t \in {u \in tasks : obj[u].channelId = c}}

\* -------------------------------------------------- cron.ts cancel_self
\* a cancel_self that would clear the handles but leave the registry entry
KeptInRegistry(t) == tasks

\* `tasks.delete(taskId)` of cancel_self
RemovedBySelf(t) == tasks \ {t}

\* only the running task's own scoped MCP server offers it
cancel_self(t) ==
  /\ NoMicrotasks
  /\ Querying(TaskCaller(t))
  /\ UNCHANGED <<taskCounter, lockVars, posting, prompts, botUserId, quiet, audit, notifying, resolvedTs>>
  /\ IF t \notin tasks
     THEN UNCHANGED <<tasks, obj, selfCancelled>>
     ELSE /\ tasks' = RemovedBySelf(t)
          /\ selfCancelled' = selfCancelled \cup
               (IF obj[t].status = "pending_cancellation"
                THEN {obj[t].cancellationMessageTs} \ {NoTs} ELSE {})
          /\ obj' = Collect([obj EXCEPT ![t] = AllCleared(@)])

\* ------------------------------------------------------------------ Next
\* the program in an environment with traffic on the channels Cs, at most
\* maxT tasks ever scheduled and at most maxR cancellation requests a task
\* ------------------------------- cron.ts shutdownCron, host shutdown()
\* a shutdown that would leave the registry as it is
RegistryKept == tasks

\* `tasks.clear()`
RegistryCleared == {}

\* every handle a registered task references is cleared, then the registry
shutdownCron ==
  /\ tasks' = RegistryCleared
  /\ obj' = Collect([t \in Ids |->
                       IF t \in tasks THEN AllCleared(obj[t]) ELSE obj[t]])

\* the SIGINT/SIGTERM handler: shutdownCron, then process.exit(0), after
\* which no job of the event loop runs
shutdown ==
  /\ NoMicrotasks
  /\ ~exited
  /\ exited' = TRUE
  /\ UNCHANGED <<taskCounter, lockVars, posting, prompts, botUserId, quiet,
                 audit, notifying, histVars, cronVars, writeVars, noticeVars>>
  /\ shutdownCron

\* the process has not exited: the event loop runs a job, which is not the
\* signal handler
Alive == ~exited /\ UNCHANGED <<exited, cronVars, writeVars, noticeVars>>

Environment(Cs, maxT, maxR) ==
  \/ Alive /\ authTest
  \/ \E c \in Cs : Alive /\ MessageArrives(c)
  \/ Alive /\ runHeartbeat
  \/ \E c \in Channels : Alive /\ Wake(c)
  \/ \E who \in Callers : Alive /\ QueryReturns(who)
  \/ \E t \in Ids : Alive /\ QueryThrows(t)
  \/ \E t \in Ids : \E ok \in BOOLEAN : Alive /\ NotifyDone(t, ok)
  \/ \E c \in Cs : \E in \in ScheduleInputs :
       Alive /\ taskCounter < maxT /\ schedule_task(c, in[1], in[2])
  \/ \E p \in posting : \E ok \in BOOLEAN : Alive /\ schedule_task_posted(p, ok)
  \/ \E t \in Ids : Alive /\ ApprovalTimeoutFires(t)
  \/ \E c \in Cs : \E id \in Ids : Alive /\ Rounds(id) < maxR /\ cancel_task(c, id)
  \/ \E p \in posting : \E ok \in BOOLEAN : Alive /\ cancel_task_posted(p, ok)
  \/ \E t \in Ids : Alive /\ CancellationTimeoutFires(t)
  \/ \E t \in Ids : Alive /\ cancel_self(t)
  \/ \E t \in Ids : Alive /\ TimerFires(t)
  \/ \E t \in Ids : Alive /\ StrayTimerFires(t)
  \/ \E ts \in PromptIds : \E actor \in Actors : \E pol \in Polarities :
       \E past \in BOOLEAN : Alive /\ reaction_added(ts, actor, pol, past)

\* every channel, one task
Next == Environment(Channels, SoloTasks, MaxRounds)

\* the same, and the signal that ends the process
NextDown ==
  \/ Environment(Channels, SoloTasks, MaxRounds)
  \/ shutdown

\* several tasks, all on the heartbeat's channel
NextPair == Environment(1..PairChannels, MaxTasks, PairRounds)

Spec == Init /\ [][Next]_vars
SpecPair == Init /\ [][NextPair]_vars
SpecDown == Init /\ [][NextDown]_vars

\* the heartbeat's channel holds all but one of the tasks it may hold, the
\* others quiet: one more registration fills it
InitFull ==
  Started([c \in Channels |->
             IF c = HeartbeatChannel THEN MAX_TASKS_PER_CHANNEL - 1 ELSE 0])

SpecFull == InitFull /\ [][NextPair]_vars

\* the event loop runs every queued continuation; every Agent Runtime call
\* ends (it returns or throws) and every failure notice settles
Scheduling ==
  /\ \A c \in Channels : WF_vars(Alive /\ Wake(c))
  /\ \A who \in Callers : SF_vars(Alive /\ QueryReturns(who))
  /\ \A t \in Ids : SF_vars(\E ok \in BOOLEAN : Alive /\ NotifyDone(t, ok))

\* the part of the program that registers, approves and runs tasks and takes
\* the channel locks, without cancellation requests and expiries
Executions(Cs, maxT) ==
  \/ \E c \in Cs : Alive /\ MessageArrives(c)
  \/ Alive /\ runHeartbeat
  \/ \E c \in Channels : Alive /\ Wake(c)
  \/ \E who \in Callers : Alive /\ QueryReturns(who)
  \/ \E t \in Ids : Alive /\ QueryThrows(t)
  \/ \E t \in Ids : \E ok \in BOOLEAN : Alive /\ NotifyDone(t, ok)
  \/ \E c \in Cs : \E in \in ScheduleInputs :
       Alive /\ taskCounter < maxT /\ schedule_task(c, in[1], in[2])
  \/ \E p \in posting : \E ok \in BOOLEAN : Alive /\ schedule_task_posted(p, ok)
  \/ \E t \in Ids : Alive /\ cancel_self(t)
  \/ \E t \in Ids : Alive /\ TimerFires(t)
  \/ \E t \in Ids : Alive /\ StrayTimerFires(t)
  \/ \E ts \in PromptIds : \E actor \in Actors : \E pol \in Polarities :
       \E past \in BOOLEAN : Alive /\ reaction_added(ts, actor, pol, past)

\* several tasks on one channel, every call ending
NextRuns == Executions(1..PairChannels, MaxTasks)
SpecRuns == Init /\ [][NextRuns]_vars /\ Scheduling

\* ------------------------- cron.ts startSchedule (cron): the next run
\* One approved task with the daily expression "0 17 * * *", followed on a
\* clock; the days of the host's time zone are taken to be 24 hours long.
DayMs == 86400000
DailyAt == 61200000

\* the instants at which the task is approved: just after midnight, at noon,
\* a minute and half a minute before 17:00, at 17:00 and just after it
ApprovalTimes ==
  {1000, 43200017, DailyAt - 60000, DailyAt - 30000, DailyAt, DailyAt + 1}

\* the clock is followed up to this instant
Horizon == MaxDays * DayMs + DailyAt + CheckPeriodMs

\* an occurrence that would be the current day's, although it has passed
SameDayOccurrence(t) == t - (t % DayMs) + DailyAt

\* `CronExpressionParser.parse(...).next()`: the first occurrence after t
NextOccurrence(t) ==
  IF t % DayMs < DailyAt
  THEN t - (t % DayMs) + DailyAt
  ELSE t - (t % DayMs) + DayMs + DailyAt

\* `Math.abs(next.getTime() - now.getTime()) < 60_000`
InWindow(next, t) ==
  (IF next >= t THEN next - t ELSE t - next) < CheckWindowMs

\* the task is approved at instant t: startSchedule arms the check timer and
\* computes the initial next run
startScheduleCron(t) ==
  /\ nextRun = 0 /\ now = 0
  /\ now' = t
  /\ nextRun' = NextOccurrence(t)
  /\ UNCHANGED <<lastFire, lates>>
  /\ UNCHANGED <<tasks, obj, taskCounter, lockVars, notifying, posting, prompts,
                 botUserId, quiet, audit, histVars, exited, writeVars,
                 noticeVars>>

\* the callback of the check timer runs, a period after the last one or
\* later than that by late
cronCheck(late) ==
  /\ nextRun # 0
  /\ late > 0 => lates < MaxLate
  /\ now + CheckPeriodMs + late <= Horizon
  /\ now' = now + CheckPeriodMs + late
  /\ lates' = lates + (IF late > 0 THEN 1 ELSE 0)
  /\ nextRun' = NextOccurrence(now')
  /\ lastFire' = IF InWindow(NextOccurrence(now'), now') THEN now' ELSE lastFire
  /\ UNCHANGED <<tasks, obj, taskCounter, lockVars, notifying, posting, prompts,
                 botUserId, quiet, audit, histVars, exited, writeVars,
                 noticeVars>>

NextCron ==
  \/ \E t \in ApprovalTimes : startScheduleCron(t)
  \/ \E late \in {0, LateMs} : cronCheck(late)

SpecCron == Init /\ [][NextCron]_vars

\* --------------------- cron.ts startSchedule (interval): the next run
\* One approved interval task of period IntervalMs, followed on the clock.
\* the task is approved at instant t: setInterval, then task.nextRun
startScheduleInterval(t) ==
  /\ nextRun = 0 /\ now = 0
  /\ now' = t
  /\ nextRun' = t + IntervalMs
  /\ UNCHANGED <<lastFire, lates>>
  /\ UNCHANGED <<tasks, obj, taskCounter, lockVars, notifying, posting, prompts,
                 botUserId, quiet, audit, histVars, exited, writeVars,
                 noticeVars>>

\* the callback of the interval timer runs, a period after the last one or
\* later than that by late; it calls executeTask and assigns nothing else
intervalTick(late) ==
  /\ nextRun # 0
  /\ late > 0 => lates < MaxLate
  /\ now + IntervalMs + late <= Horizon
  /\ now' = now + IntervalMs + late
  /\ lates' = lates + (IF late > 0 THEN 1 ELSE 0)
  /\ lastFire' = now'
  /\ UNCHANGED nextRun
  /\ UNCHANGED <<tasks, obj, taskCounter, lockVars, notifying, posting, prompts,
                 botUserId, quiet, audit, histVars, exited, writeVars,
                 noticeVars>>

NextInterval ==
  \/ \E t \in ApprovalTimes : startScheduleInterval(t)
  \/ \E late \in {0, LateMs} : intervalTick(late)

SpecInterval == Init /\ [][NextInterval]_vars

\* ------------------------------------ github.ts: approval-gated writes
\* The pending writes of the GitHub tool server, followed on their own: the
\* prompt of write w is the Slack message w, posted in the write's channel.
\* an approval that would leave the write in the registry
WriteKept(w) == pendingWrites

\* `pendingWrites.delete(writeId)` of approveWrite
WriteRemoved(w) == pendingWrites \ {w}

\* create_issue up to `await chat.postMessage` of the approval prompt
create_issue(c) ==
  /\ writeCounter < MaxWrites
  /\ writeCounter' = writeCounter + 1
  /\ pendingWrites' = pendingWrites \cup {writeCounter + 1}
  /\ wr' = [wr EXCEPT ![writeCounter + 1] = [NoWrite EXCEPT !.channelId = c]]
  /\ wposting' = wposting \cup {writeCounter + 1}
  /\ UNCHANGED <<executed, outcome>>

\* create_issue after the await: the handle is stored and the expiry armed,
\* or the post threw and the write is deleted
create_issue_posted(w, ok) ==
  /\ w \in wposting
  /\ wposting' = wposting \ {w}
  /\ IF ok
     THEN /\ wr' = [wr EXCEPT ![w].approvalMessageTs = TRUE,
                              ![w].approvalTimeout = TRUE]
          /\ UNCHANGED pendingWrites
     ELSE /\ pendingWrites' = pendingWrites \ {w}
          /\ UNCHANGED wr
  /\ UNCHANGED <<writeCounter, executed, outcome>>

\* the approvalTimeout callback: `if (!pendingWrites.has(writeId)) return`
WriteTimeoutFires(w) ==
  /\ wr[w].approvalTimeout
  /\ wr' = [wr EXCEPT ![w].approvalTimeout = FALSE]
  /\ pendingWrites' = pendingWrites \ {w}
  /\ outcome' = IF w \in pendingWrites
                THEN [outcome EXCEPT ![w] = "expired"] ELSE outcome
  /\ UNCHANGED <<writeCounter, wposting, executed>>

\* the write that message w in channel c is the approval prompt of (0: none)
findPendingWriteByMessageTs(c, w) ==
  IF w \in pendingWrites /\ wr[w].channelId = c /\ wr[w].approvalMessageTs
  THEN w ELSE 0

\* approveWrite: timeout cleared, write deleted, then ghExec is called
approveWrite(w) ==
  /\ wr' = [wr EXCEPT ![w].approvalTimeout = FALSE]
  /\ pendingWrites' = WriteRemoved(w)
  /\ executed' = [executed EXCEPT ![w] = @ + 1]
  /\ outcome' = [outcome EXCEPT ![w] = "approved"]

rejectWrite(w) ==
  /\ wr' = [wr EXCEPT ![w].approvalTimeout = FALSE]
  /\ pendingWrites' = pendingWrites \ {w}
  /\ outcome' = [outcome EXCEPT ![w] = "rejected"]
  /\ UNCHANGED executed

\* the reaction handler's third check, for a reaction on message w in
\* channel c, which is no prompt of a task
reaction_added_write(c, w, pol) ==
  /\ wr[w].approvalMessageTs /\ wr[w].channelId = c
  /\ UNCHANGED <<writeCounter, wposting>>
  /\ IF findPendingWriteByMessageTs(c, w) = 0
     THEN UNCHANGED <<pendingWrites, wr, executed, outcome>>
     ELSE IF pol = "approve" THEN approveWrite(w) ELSE rejectWrite(w)

\* the steps of the writes leave the tasks, the locks and the clock alone
WriteFrame ==
  UNCHANGED <<tasks, obj, taskCounter, lockVars, notifying, posting, prompts,
              botUserId, quiet, audit, histVars, exited, cronVars, noticeVars>>

NextWrites ==
  \/ \E c \in Channels : WriteFrame /\ create_issue(c)
  \/ \E w \in WriteIds : \E ok \in BOOLEAN : WriteFrame /\ create_issue_posted(w, ok)
  \/ \E w \in WriteIds : WriteFrame /\ WriteTimeoutFires(w)
  \/ \E c \in Channels : \E w \in WriteIds : \E pol \in Polarities :
       WriteFrame /\ reaction_added_write(c, w, pol)

SpecWrites == Init /\ [][NextWrites]_vars

\* ------------------------------- best-effort notices after a transition
\* Every transition is followed, in the same handler or timer callback, by
\* `try { await app.client.chat.postMessage(...) } catch { }` as the last
\* statement.  Here the post is in flight from the transition's step until it
\* settles; a notice is the pair of its kind and the task it reports.
NoticeKinds ==
  {"approved", "rejected", "expired", "cancellation_confirmed",
   "cancellation_rejected", "cancellation_expired", "self_cancelled"}

\* the notice the reaction handler posts for this reaction, <<"none", 0>> if
\* it returns without a transition
ReactionNotice(ts, actor, pol) ==
  LET pendingTask == findPendingTaskByMessageTs(prompts[ts], ts)
      cancellingTask == findPendingCancellationByMessageTs(prompts[ts], ts)
  IN  IF SelfReaction(actor) \/ (pendingTask = 0 /\ cancellingTask = 0)
      THEN <<"none", 0>>
      ELSE IF pendingTask # 0
           THEN <<IF pol = "approve" THEN "approved" ELSE "rejected", pendingTask>>
           ELSE <<IF pol = "approve" THEN "cancellation_confirmed"
                  ELSE "cancellation_rejected", cancellingTask>>

\* the step goes on to post notice n (none when the kind is "none")
Noted(n) ==
  /\ ~exited
  /\ UNCHANGED <<exited, cronVars, writeVars, lost>>
  /\ notices' = IF n[1] = "none" THEN notices ELSE notices \cup {n}

\* the post of a cancellation prompt settles: a failure is remembered
PromptSettled(p, ok) ==
  /\ ~exited
  /\ UNCHANGED <<exited, cronVars, writeVars, notices>>
  /\ lost' = IF ok THEN lost ELSE lost \cup {<<"cancellation_prompt", p.id>>}

\* a failed post that would reject the promise of the handler or callback:
\* the process ends on the unhandled rejection
Escapes(ok) == IF ok THEN exited ELSE TRUE

\* `catch { /* best-effort */ }`: the process goes on either way
Swallowed(ok) == exited

\* the post of notice n settles (ok: it resolved, otherwise it threw) and
\* the handler returns
NoticeDone(n, ok) ==
  /\ NoMicrotasks
  /\ ~exited
  /\ n \in notices
  /\ notices' = notices \ {n}
  /\ lost' = IF ok THEN lost ELSE lost \cup {n}
  /\ exited' = Swallowed(ok)
  /\ UNCHANGED <<tasks, obj, taskCounter, lockVars, notifying, posting, prompts,
                 botUserId, quiet, audit, histVars, cronVars, writeVars>>

\* the program with its notices, on every channel with one task
NextNotices ==
  \/ Alive /\ authTest
  \/ \E c \in Channels : Alive /\ MessageArrives(c)
  \/ Alive /\ runHeartbeat
  \/ \E c \in Channels : Alive /\ Wake(c)
  \/ \E who \in Callers : Alive /\ QueryReturns(who)
  \/ \E t \in Ids : Alive /\ QueryThrows(t)
  \/ \E t \in Ids : \E ok \in BOOLEAN : Alive /\ NotifyDone(t, ok)
  \/ \E c \in Channels : \E in \in ScheduleInputs :
       Alive /\ taskCounter < SoloTasks /\ schedule_task(c, in[1], in[2])
  \/ \E p \in posting : \E ok \in BOOLEAN : Alive /\ schedule_task_posted(p, ok)
  \/ \E t \in Ids :
       /\ ApprovalTimeoutFires(t)
       /\ Noted(<<IF obj[t].status = "pending_approval" THEN "expired" ELSE "none", t>>)
  \/ \E c \in Channels : \E id \in Ids :
       Alive /\ Rounds(id) < NoticeRounds /\ cancel_task(c, id)
  \/ \E p \in posting : \E ok \in BOOLEAN :
       cancel_task_posted(p, ok) /\ PromptSettled(p, ok)
  \/ \E t \in Ids :
       /\ CancellationTimeoutFires(t)
       /\ Noted(<<IF obj[t].status = "pending_cancellation"
                  THEN "cancellation_expired" ELSE "none", t>>)
  \/ \E t \in Ids :
       /\ cancel_self(t)
       /\ Noted(<<IF t \in tasks THEN "self_cancelled" ELSE "none", t>>)
  \/ \E t \in Ids : Alive /\ TimerFires(t)
  \/ \E t \in Ids : Alive /\ StrayTimerFires(t)
  \/ \E ts \in PromptIds : \E actor \in Actors : \E pol \in Polarities :
       \E past \in BOOLEAN :
         /\ reaction_added(ts, actor, pol, past)
         /\ Noted(ReactionNotice(ts, actor, pol))
  \/ \E n \in notices : \E ok \in BOOLEAN : NoticeDone(n, ok)

SpecNotices == Init /\ [][NextNotices]_vars

\* ---------------------------------------------------------------- claims
\* C1: a task's Agent Runtime invocation begins only after activateTask has
\* moved the task from pending_approval to active: an object that is waiting
\* for the lock, running, or has a scheduling timer armed has been through
\* startSchedule and is no longer pending_approval; a task that is rejected,
\* expires or is cancelled while pending_approval keeps that status on its
\* way out of the registry, so it never executes.
C1_ExecutionOnlyAfterApproval ==
  \A t \in Ids :
    LET r == obj[t]
        executes == \/ InFlight(TaskCaller(t)) > 0 \/ r.isRunning
                    \/ r.timer = "live" \/ r.stray > 0
    IN  /\ executes => r.armed >= 1 /\ r.status \in {"active", "pending_cancellation"}
        /\ r.status = "pending_approval" => r.armed = 0 /\ ~executes

\* C1 witness: an approved task's query is running
C1_Witness ==
  \E t \in Ids : Querying(TaskCaller(t)) /\ obj[t].armed = 1 /\ obj[t].isRunning

\* C2: for every channel at most one caller holds the channel lock, so no
\* two invocations (scheduled, interactive, heartbeat) on a channel overlap.
C2_OneHolderPerChannel ==
  \A c \in Channels : HoldersOf(c) <= 1 /\ (HoldersOf(c) = 1 => locks[c])

\* C2 witness: a scheduled task holds the lock of the heartbeat's channel
\* while another task, an interactive message and the heartbeat wait for it
C2_Witness ==
  \E t \in Ids :
    /\ Querying(TaskCaller(t))
    /\ ChannelOf(TaskCaller(t)) = HeartbeatChannel
    /\ \E u \in Ids \ {t} : Waiting(TaskCaller(u)) = 1
    /\ Waiting(MsgCaller(HeartbeatChannel)) = 1
    /\ Waiting(BeatCaller) = 1

\* C3: a timer that fires while isRunning is true neither invokes nor queues
\* anything, and at most one execution of a task waits for or holds the lock.
C3_TickSkippedWhileRunning ==
  /\ [](\A t \in Ids : InFlight(TaskCaller(t)) <= 1)
  /\ [][\A t \in Ids :
          (obj[t].isRunning /\ (TimerFires(t) \/ StrayTimerFires(t)))
            => UNCHANGED <<lockVars, tasks>> /\ obj'[t].isRunning]_vars

\* C3 witness: an interval task is running and its timer is armed to fire
C3_Witness ==
  \E t \in Ids :
    /\ obj[t].isRunning /\ Querying(TaskCaller(t))
    /\ obj[t].scheduleType = "interval" /\ obj[t].timer = "live"

\* C4: a pending item is resolved at most once: after a reaction on a prompt
\* has resolved its item, every later approve/reject reaction on that prompt
\* leaves the registry, all objects (statuses, timers, timeouts) and the
\* record of resolutions unchanged.
C4_ResolvedAtMostOnce ==
  [][\A ts \in resolvedTs : \A actor \in Actors : \A pol \in Polarities :
       \A past \in BOOLEAN :
         reaction_added(ts, actor, pol, past)
           => UNCHANGED <<tasks, obj, resolvedTs>>]_vars

\* C4 witness: the approval prompt of a registered task is resolved, and a
\* rejected cancellation prompt of it as well, while the task runs on
C4_Witness ==
  \E t \in tasks :
    /\ <<t, 0>> \in resolvedTs /\ <<t, 1>> \in resolvedTs
    /\ obj[t].status = "active" /\ obj[t].timer = "live"

\* C5: a reaction of the bot itself never resolves a pending item.
C5_SelfReactionIgnored ==
  [][\A ts \in PromptIds : \A pol \in Polarities : \A past \in BOOLEAN :
       reaction_added(ts, "bot", pol, past) => UNCHANGED <<tasks, obj>>]_vars

\* C6: a registered task has a correlation handle set iff its status is
\* pending_approval or pending_cancellation.
C6_HandleIffPending ==
  \A t \in tasks :
    (obj[t].approvalMessageTs # NoTs \/ obj[t].cancellationMessageTs # NoTs)
      <=> obj[t].status \in {"pending_approval", "pending_cancellation"}

\* C7: each task has at most one live scheduling timer and at most one live
\* approval/cancellation timeout, and its schedule is armed at most once.
C7_OneTimerOneTimeout ==
  \A t \in Ids :
    LET r == obj[t] IN
      /\ (IF r.timer = "live" THEN 1 ELSE 0) + r.stray <= 1
      /\ (IF r.approvalTimeout THEN 1 ELSE 0)
           + (IF r.cancellationTimeout THEN 1 ELSE 0) + r.strayTimeouts <= 1
      /\ r.armed <= 1

\* C7 witness: a task in its second cancellation request, with its schedule
\* timer and the second cancellation timeout armed
C7_Witness ==
  \E t \in tasks :
    /\ obj[t].cancellationMessageTs = <<t, 2>> /\ obj[t].cancellationTimeout
    /\ obj[t].timer = "live" /\ obj[t].armed = 1

\* C8: a registered task has a timer handle set iff its status is active or
\* pending_cancellation.
C8_TimerIffActive ==
  \A t \in tasks :
    obj[t].timer # "unset" <=> obj[t].status \in {"active", "pending_cancellation"}

\* C9: a live approval or cancellation timeout exists for a task only while
\* the task is registered with an approval outstanding.
C9_TimeoutOnlyWhilePending ==
  \A t \in Ids :
    (obj[t].approvalTimeout \/ obj[t].cancellationTimeout \/ obj[t].strayTimeouts > 0)
      => /\ t \in tasks
         /\ obj[t].status \in {"pending_approval", "pending_cancellation"}

\* C10: a confirm reaction on the cancellation prompt of a task that
\* cancel_self has already removed changes neither the registry nor any
\* object (other tasks, timers, timeouts).
C10_ConfirmAfterSelfCancel ==
  [][\A ts \in selfCancelled : \A actor \in Actors : \A past \in BOOLEAN :
       reaction_added(ts, actor, "approve", past)
         => UNCHANGED <<tasks, obj, lockVars>>]_vars

\* C10 witness: a task removed itself while its cancellation was pending
\* (its prompt is still unanswered) and another task is registered, armed
C10_Witness ==
  \E ts \in selfCancelled :
    /\ ts \notin resolvedTs /\ ts[1] \notin tasks
    /\ \E u \in tasks : u # ts[1] /\ obj[u].timer = "live"

\* C11: cancel_self called for a task that is no longer in the registry
\* changes nothing; called for a registered task it leaves the task absent
\* with its timer, its approval timeout and its cancellation timeout
\* disarmed, so a second call in a row finds and leaves the state of the first
C11_CancelSelfIdempotent ==
  [][\A t \in Ids : cancel_self(t) =>
        /\ t \notin tasks => UNCHANGED vars
        /\ t \notin tasks'
        /\ t \in tasks =>
             /\ obj'[t].timer # "live" /\ obj'[t].stray = 0
             /\ ~obj'[t].approvalTimeout /\ ~obj'[t].cancellationTimeout
             /\ Querying(TaskCaller(t))' ]_vars

\* C11 witness: a task has cancelled itself, is absent, and its run can call
\* cancel_self a second time
C11_Witness ==
  \E ts \in selfCancelled :
    /\ ts[1] \notin tasks
    /\ Querying(TaskCaller(ts[1]))
    /\ ~obj[ts[1]].cancellationTimeout

\* C12: every task execution waiting for a channel lock eventually holds
\* it, and every task execution in flight eventually completes, provided
\* every Agent Runtime call ends; in particular when two tasks of one
\* channel fire together both run, one after the other.  (At most one
\* execution of a task is in flight, so the counts follow that execution.)
C12_WaiterEventuallyAcquires ==
  \A t \in Ids :
    /\ (Waiting(TaskCaller(t)) > 0) ~> (Holding(TaskCaller(t)) > 0)
    /\ (InFlight(TaskCaller(t)) > 0) ~> (InFlight(TaskCaller(t)) = 0)

\* C12 witness: two tasks of one channel are in flight together, one holding
\* the lock and the other waiting for it
C12_Witness ==
  \E t, u \in tasks :
    /\ t # u /\ obj[t].channelId = obj[u].channelId
    /\ Holding(TaskCaller(t)) > 0
    /\ Waiting(TaskCaller(u)) > 0

\* C13: a channel lock is held only while an execution is between acquire
\* and release, isRunning is true only while an execution of the task is in
\* flight, and the step that ends a task's Agent Runtime call (return, or
\* failure followed by a failure notice that is sent or fails) releases
\* the lock and clears isRunning, also for a task removed during the call
C13_ReleasedWhenCallEnds ==
  /\ [](\A c \in Channels : locks[c] => HoldersOf(c) = 1)
  /\ [](\A t \in Ids : obj[t].isRunning => InFlight(TaskCaller(t)) = 1)
  /\ [][\A t \in Ids :
          (QueryReturns(TaskCaller(t)) \/ \E ok \in BOOLEAN : NotifyDone(t, ok))
          => /\ ~locks'[obj[t].channelId]
             /\ ~obj'[t].isRunning
             /\ InFlight(TaskCaller(t))' = 0
             /\ t \notin notifying']_vars

\* C13 witness: the Agent Runtime call of a task that was removed from the
\* registry during the call has failed, and the failure notice is pending
\* with the lock held
C13_Witness ==
  \E t \in notifying :
    /\ t \notin tasks
    /\ obj[t].isRunning
    /\ locks[obj[t].channelId]

C15_ExpiryFreesCapacity ==
  [][\A c \in Channels :
        /\ \A t \in Ids :
             (/\ ApprovalTimeoutFires(t)
              /\ t \in tasks /\ obj[t].status = "pending_approval"
              /\ obj[t].channelId = c)
             => /\ t \notin tasks'
                /\ ChannelTaskCount(c)' = ChannelTaskCount(c) - 1
                /\ ~AtCapacity(c)'
        /\ \A in \in ValidInputs :
             (schedule_task(c, in[1], in[2]) /\ ~AtCapacity(c))
             => /\ taskCounter' \in tasks' \ tasks
                /\ ChannelTaskCount(c)' = ChannelTaskCount(c) + 1]_vars

\* C15 witness: the first task expired while the channel was full; a second
\* task was then registered there, and the channel is full again
C15_Witness ==
  /\ <<"cron_task_expired", 1>> \in audit
  /\ <<"cron_task_requested", 1>> \in audit
  /\ 1 \notin tasks /\ 2 \in tasks
  /\ AtCapacity(HeartbeatChannel)

C17_AtMostTenPerChannel ==
  \A c \in Channels : ChannelTaskCount(c) <= MAX_TASKS_PER_CHANNEL

\* C17 witness: a channel holds MAX_TASKS_PER_CHANNEL tasks, the last of them
\* registered after an earlier one had been removed, and approved
C17_Witness ==
  \E c \in Channels :
    /\ ChannelTaskCount(c) = MAX_TASKS_PER_CHANNEL
    /\ \E t \in tasks : /\ obj[t].status # "pending_approval"
                         /\ obj[t].channelId = c /\ t = MaxTasks

\* C18: a schedule_task call whose schedule is invalid (a cron expression
\* that does not parse; an interval or a relative once delay that does not
\* parse, is zero or is below 60000 ms; a timestamp that does not parse)
\* changes nothing: registry, task objects with their timers and timeouts,
\* id counter, pending posts, posted prompts and audit log are as before
C18_InvalidScheduleChangesNothing ==
  [][\A c \in Channels : \A in \in ScheduleInputs :
        (/\ schedule_task(c, in[1], in[2])
         /\ \/ in[2].form \in {"expr", "stamp"} /\ ~in[2].parses
            \/ /\ in[2].form \in {"text", "in"}
               /\ \/ parseDuration(in[2].text).null
                  \/ parseDuration(in[2].text).ms < 60000)
        => UNCHANGED <<tasks, obj, taskCounter, posting, prompts, audit>>]_vars

\* C18 witness: the agent of an interactive query can call schedule_task on
\* a channel below its limit, where a valid schedule would register a task,
\* and the inputs tried hold invalid schedules of every kind
C18_Witness ==
  /\ \E c \in Channels :
       /\ Querying(MsgCaller(c)) /\ NoMicrotasks
       /\ taskCounter < MaxTasks /\ ~AtCapacity(c)
       /\ taskCounter > 0
  /\ \A type \in ScheduleTypes : \E in \in ScheduleInputs :
       in[1] = type /\ ValidationError(type, in[2])
  /\ \E in \in ScheduleInputs :
       /\ ValidationError(in[1], in[2])
       /\ ~parseDuration(in[2].text).null /\ parseDuration(in[2].text).ms > 0

\* C19: a once task whose execution is in flight was armed exactly once and
\* has no timer left that could start a second execution, and the step that
\* ends its Agent Runtime call, by return or by failure, leaves it out of
\* the registry with no timer armed
C19_OnceRunsOnceThenGone ==
  /\ [](\A t \in Ids :
          (obj[t].scheduleType = "once" /\ InFlight(TaskCaller(t)) > 0)
          => /\ obj[t].armed = 1 /\ InFlight(TaskCaller(t)) = 1
             /\ obj[t].timer # "live" /\ obj[t].stray = 0)
  /\ [][\A t \in Ids :
          (/\ obj[t].scheduleType = "once"
           /\ QueryReturns(TaskCaller(t)) \/ \E ok \in BOOLEAN : NotifyDone(t, ok))
          => /\ t \notin tasks'
             /\ obj'[t].timer # "live" /\ obj'[t].stray = 0]_vars

\* C19 witness: the execution of an approved once task failed and is about
\* to end with the task still registered
C19_Witness ==
  \E t \in notifying \cap tasks :
    /\ obj[t].scheduleType = "once"
    /\ obj[t].status = "active"
    /\ obj[t].armed = 1

\* C20: the failure of the Agent Runtime call of an interval or cron task
\* and the end of its failure path change neither the task's registration
\* nor its status nor its timer; a registered task comes out of the failure
\* path with its timer armed and isRunning false, so its next tick (the next
\* due tick of a cron task) calls executeTask and passes the guard
C20_RecurringSurvivesFailure ==
  [][\A t \in Ids :
        (/\ obj[t].scheduleType \in {"interval", "cron"}
         /\ QueryThrows(t) \/ \E ok \in BOOLEAN : NotifyDone(t, ok))
        => /\ (t \in tasks') = (t \in tasks)
           /\ t \in tasks =>
                /\ obj'[t].status = obj[t].status
                /\ obj'[t].timer = "live" /\ obj[t].timer = "live"
                /\ obj'[t].armed = obj[t].armed
                /\ t \in notifying =>
                     ~SkipTick(obj'[t]) /\ Fires(obj'[t], TRUE)]_vars

\* C20 witness: the execution of a registered interval or cron task has
\* failed, its timer armed
C20_Witness ==
  \E t \in notifying \cap tasks :
    /\ obj[t].scheduleType \in {"interval", "cron"}
    /\ obj[t].timer = "live"
    /\ obj[t].isRunning

\* C21: a cancel_task call for an id that is not in the registry, or for a
\* task that is already pending_cancellation, changes nothing: registry,
\* task objects (statuses, timers, timeouts), pending posts, posted prompts
\* and audit log are as before
C21_RefusedCancelChangesNothing ==
  [][\A c \in Channels : \A id \in Ids :
        (/\ cancel_task(c, id)
         /\ id \notin tasks \/ obj[id].status = "pending_cancellation")
        => UNCHANGED <<tasks, obj, taskCounter, posting, prompts, audit>>]_vars

\* C21 witness: the agent of an interactive query can call cancel_task for
\* a task whose cancellation prompt is posted and pending, and for an id
\* that is no longer registered
C21_Witness ==
  \E c \in Channels : \E id \in tasks :
    /\ Querying(MsgCaller(c)) /\ NoMicrotasks
    /\ obj[id].status = "pending_cancellation"
    /\ obj[id].cancellationMessageTs # NoTs /\ obj[id].cancellationTimeout
    /\ Rounds(id) < MaxRounds

\* C22: cancel_task on a task in pending_approval removes it at once, posts
\* no cancellation prompt and leaves its approval timeout disarmed; a task
\* that left the registry while pending_approval is never activated, never
\* registered again, and no cron_task_expired entry is written for it
C22_CancelledPendingIsGone ==
  [][/\ \A c \in Channels : \A id \in Ids :
          (/\ cancel_task(c, id)
           /\ id \in tasks /\ obj[id].status = "pending_approval")
          => /\ id \notin tasks'
             /\ posting' = posting /\ prompts' = prompts
             /\ ~obj'[id].approvalTimeout
     /\ \A t \in Ids :
          (t \notin tasks /\ obj[t].status = "pending_approval")
          => /\ t \notin tasks'
             /\ obj'[t].status # "active"
             /\ <<"cron_task_expired", t>> \in audit'
                  => <<"cron_task_expired", t>> \in audit]_vars

C24_ListTasksScoped ==
  [][\A c \in Channels :
       Querying(MsgCaller(c)) =>
         /\ {l.id : l \in list_tasks(c)} = {t \in tasks : obj[t].channelId = c}
         /\ (/\ {t \in tasks' : obj'[t].channelId = c} = {t \in tasks : obj[t].channelId = c}
             /\ \A t \in tasks : obj[t].channelId = c => obj'[t] = obj[t])
              => list_tasks(c)' = list_tasks(c)]_vars

\* C25: the shutdown step leaves the registry empty and, for every task that
\* was registered, no scheduling timer, approval timeout or cancellation
\* timeout referenced by it armed; and no step at all (no timer callback,
\* no execution, no expiry) starts in a state after shutdown
C25_NothingAfterShutdown ==
  [][/\ ~exited
     /\ exited' =>
          /\ tasks' = {}
          /\ \A t \in tasks :
               /\ obj'[t].timer # "live"
               /\ ~obj'[t].approvalTimeout
               /\ ~obj'[t].cancellationTimeout]_vars

\* C25 witness: the process has exited while an execution was in flight and
\* a timer whose handle no task references was still armed
C25_Witness ==
  /\ exited /\ tasks = {}
  /\ \E t \in Ids : obj[t].stray > 0
  /\ \E who \in Callers : InFlight(who) > 0

\* C26: the callers waiting for a channel's lock acquire it in the order in
\* which they began to wait: a step leaves the waiting order of a channel as
\* it is, appends a new caller at its end, or removes its first caller, who
\* then holds the lock; and while anyone waits, nobody but the first waiter
\* acquires the lock
C26_WaitersAcquireInOrder ==
  [][\A c \in Channels :
       /\ \/ WaitOrder(c)' = WaitOrder(c)
          \/ \E who \in Callers : WaitOrder(c)' = Append(WaitOrder(c), who)
          \/ /\ WaitOrder(c) # <<>>
             /\ WaitOrder(c)' = Tail(WaitOrder(c))
             /\ cs'[Head(WaitOrder(c))] = cs[Head(WaitOrder(c))] + 1
       /\ \A who \in Callers :
            (ChannelOf(who) = c /\ cs'[who] > cs[who] /\ WaitOrder(c) # <<>>)
              => who = Head(WaitOrder(c))]_vars

\* C26 witness: after a release with three callers waiting, the first holds
\* the lock, the second waits again and the third is still to resume
C26_Witness ==
  \E c \in Channels :
    /\ HoldersOf(c) = 1
    /\ Len(waitq[c]) = 1 /\ Len(woken[c]) = 1
    /\ waitq[c][1] # woken[c][1]

\* C27: for every interval value schedule_task accepts, the description
\* formatScheduleDescription gives for the normalized milliseconds is an
\* "every ..." text that denotes the duration the input denotes
C27_DescriptionDenotesInput ==
  [][\A c \in Channels : \A in \in ValidInputs :
       (in[1] = "interval" /\ schedule_task(c, in[1], in[2]))
         => LET ms == parseDuration(in[2].text).ms
                desc == formatScheduleDescription(
                          "interval", Value("text", normalizedValue(ms), FALSE))
            IN  desc.form = "every" /\ Denoted(desc.dur) = ms]_vars

\* C28: when the daily cron task is approved its nextRun is set to an
\* instant after the approval and at most a day after it; the check that
\* follows a check which called executeTask sets nextRun a day later
\* exactly, and nextRun, once set, never changes in any other way
C28_NextRunAdvancesByOneDay ==
  [][/\ nextRun = 0 =>
          \A t \in ApprovalTimes :
            startScheduleCron(t) => nextRun' > t /\ nextRun' <= t + DayMs
     /\ (nextRun # 0 /\ lastFire = now) => nextRun' = nextRun + DayMs
     /\ (nextRun # 0 /\ nextRun' # nextRun) => nextRun' = nextRun + DayMs]_vars

\* C28 witness: the task was approved after 17:00, a check of the second day
\* called executeTask less than a minute before 17:00 and the check after it
\* has set nextRun to 17:00 of the third day
C28_Witness ==
  /\ lastFire > DayMs + DailyAt - CheckWindowMs /\ lastFire < DayMs + DailyAt
  /\ now > lastFire
  /\ nextRun = 2 * DayMs + DailyAt

\* C29: a task enters the registry as pending_approval; while it stays
\* registered its status is one of pending_approval, active and
\* pending_cancellation and changes only from pending_approval to active (by
\* an approve reaction), from active to pending_cancellation (by cancel_task)
\* and from pending_cancellation to active (by a reject reaction, the
\* cancellation expiry or a prompt that could not be posted); and each of
\* activateTask, rejectTask, confirmCancellation and rejectCancellation
\* leaves registry and objects as they are for a task that is missing or not
\* in its source status
C29_StatusEdges ==
  [][\A t \in Ids :
       /\ (t \notin tasks /\ t \in tasks') => obj'[t].status = "pending_approval"
       /\ t \in tasks' =>
            obj'[t].status \in {"pending_approval", "active", "pending_cancellation"}
       /\ (t \in tasks /\ t \in tasks' /\ obj'[t].status # obj[t].status) =>
            \/ /\ obj[t].status = "pending_approval" /\ obj'[t].status = "active"
               /\ \E ts \in PromptIds : \E actor \in Actors : \E past \in BOOLEAN :
                    reaction_added(ts, actor, "approve", past)
            \/ /\ obj[t].status = "active" /\ obj'[t].status = "pending_cancellation"
               /\ \E c \in Channels : cancel_task(c, t)
            \/ /\ obj[t].status = "pending_cancellation" /\ obj'[t].status = "active"
               /\ \/ \E ts \in PromptIds : \E actor \in Actors : \E past \in BOOLEAN :
                       reaction_added(ts, actor, "reject", past)
                  \/ CancellationTimeoutFires(t)
                  \/ \E p \in posting : cancel_task_posted(p, FALSE)
       /\ ~IsPendingApproval(t) =>
            /\ \A past \in BOOLEAN : activateTask(t, past) => UNCHANGED <<tasks, obj>>
            /\ rejectTask(t) => UNCHANGED <<tasks, obj>>
       /\ ~IsPendingCancellation(t) =>
            /\ confirmCancellation(t) => UNCHANGED <<tasks, obj>>
            /\ rejectCancellation(t) => UNCHANGED <<tasks, obj>>]_vars

\* C29 witness: a task is active again after two cancellation prompts were
\* posted for it, so it has been along every edge
C29_Witness ==
  \E t \in tasks :
    /\ obj[t].status = "active" /\ obj[t].cancellationMessageTs = NoTs
    /\ ~obj[t].cancellationTimeout
    /\ Rounds(t) = MaxRounds

\* C30: a reaction on a posted prompt changes the registry entry or the
\* object of a task only if that task is registered under the channel the
\* prompt lives in and is pending with that prompt as its handle: pending
\* approval with it as approval handle, or pending cancellation with it as
\* cancellation handle.  So a reaction whose prompt matches no pending item,
\* or only an item of another channel, changes no task, timer or timeout
C30_ReactionNeedsChannelAndHandle ==
  [][\A ts \in PromptIds :
       (\E actor \in Actors : \E pol \in Polarities : \E past \in BOOLEAN :
          reaction_added(ts, actor, pol, past))
       => \A t \in Ids :
            (obj'[t] # obj[t] \/ (t \in tasks) # (t \in tasks'))
              => /\ t \in tasks
                 /\ obj[t].channelId = prompts[ts]
                 /\ \/ obj[t].status = "pending_approval"
                       /\ obj[t].approvalMessageTs = ts
                    \/ obj[t].status = "pending_cancellation"
                       /\ obj[t].cancellationMessageTs = ts]_vars

\* C30 witness: a task is pending cancellation and its cancellation prompt
\* was posted in another channel than the one the task is registered under,
\* while the approval prompt it was approved on is still in its own channel
C30_Witness ==
  \E t \in tasks :
    /\ obj[t].status = "pending_cancellation"
    /\ obj[t].cancellationMessageTs # NoTs
    /\ prompts[obj[t].cancellationMessageTs] # obj[t].channelId
    /\ prompts[obj[t].approvalMessageTs] = obj[t].channelId

\* C31: a timeout callback performs its expiry action (the approval expiry
\* removes the task and records it as expired; the cancellation expiry sets
\* the status back to active and records the task as remaining active) only
\* for a task that is in the registry, and after a cancellation expiry the
\* task is in the registry with status active
C31_ExpiryOnlyForRegisteredPending ==
  [][\A t \in Ids :
       /\ (ApprovalTimeoutFires(t) /\ obj[t].status = "pending_approval")
            => t \in tasks
       /\ (CancellationTimeoutFires(t) /\ obj[t].status = "pending_cancellation")
            => t \in tasks /\ t \in tasks' /\ obj'[t].status = "active"]_vars

\* C32: in every state a task whose isRunning is true has an execution that
\* holds the lock of its channel
C32_RunningHoldsLock ==
  \A t \in Ids : obj[t].isRunning => cs[TaskCaller(t)] > 0

\* C33: once the timer of the recurring task has ticked, nextRun is not
\* earlier than the instant of its most recent tick
C33_NextRunNotBeforeLastTick ==
  (nextRun # 0 /\ lastFire # 0) => nextRun >= lastFire

\* C34: while no check of the cron timer runs late (the checks are exactly
\* 60 s apart), every occurrence that passes after the approval has had a
\* check that called executeTask for it, in the minute before it, and no
\* second check calls executeTask for the same occurrence
C34_EachOccurrenceFiresOnce ==
  [][(lates' = 0 /\ nextRun # 0) =>
       /\ nextRun' # nextRun =>
            lastFire > nextRun - CheckWindowMs /\ lastFire < nextRun
       /\ (lastFire' # lastFire /\ lastFire # 0) =>
            lastFire <= nextRun' - CheckWindowMs]_vars

\* C35: the command of a GitHub write is executed at most once, and only by
\* an approve reaction on its prompt, for a write that was not rejected and
\* has not expired; once a write is approved, rejected or expired its expiry
\* is disarmed, so an expiry is never recorded for a resolved write
C35_WriteExecutedOnceOnApproval ==
  /\ [](\A w \in WriteIds :
          /\ executed[w] <= 1
          /\ executed[w] = 1 <=> outcome[w] = "approved"
          /\ outcome[w] # "none" => w \notin pendingWrites /\ ~wr[w].approvalTimeout)
  /\ [][\A w \in WriteIds :
          /\ executed'[w] # executed[w] =>
               /\ outcome[w] = "none"
               /\ reaction_added_write(wr[w].channelId, w, "approve")
          /\ outcome[w] # "none" => outcome'[w] = outcome[w]]_vars

\* C35 witness: one write was approved and its command executed, and the
\* other has expired, each after its prompt was posted
C35_Witness ==
  \E w, x \in WriteIds :
    /\ executed[w] = 1 /\ outcome[w] = "approved" /\ wr[w].approvalMessageTs
    /\ outcome[x] = "expired" /\ executed[x] = 0

\* C36: when the post of a best-effort notice settles, whether it resolved
\* or threw, the process goes on and the registry, the task objects with
\* their handles, the locks and everything else stay as the transition left
\* them; the failure notice of an execution ends, resolved or thrown, in the
\* same `finally`: the lock is released and isRunning is false
C36_NoticeFailureChangesNothing ==
  [][/\ \A n \in notices :
          n \notin notices' =>
            /\ exited' = exited
            /\ UNCHANGED <<tasks, obj, taskCounter, lockVars, notifying, posting,
                           prompts, botUserId, quiet, audit, histVars, cronVars,
                           writeVars>>
     /\ \A t \in Ids :
          NotifyDone(t, FALSE) =>
            NotifyDone(t, TRUE) /\ ~obj'[t].isRunning /\ exited' = exited]_vars

\* C36 witness: the posts of the approval's notice and of the rejected
\* cancellation's notice both threw, and the task is registered and active
C36_Witness ==
  \E t \in Ids :
    /\ <<"approved", t>> \in lost /\ <<"cancellation_rejected", t>> \in lost
    /\ t \in tasks /\ obj[t].status = "active"

\* C37: a cancel_task call made through the tool server of channel c leaves
\* the status and the registry membership of every task registered under
\* another channel as they were, and the cancellation prompt of every task in
\* pending_cancellation lives in the task's own channel
C37_CancelTaskStaysInChannel ==
  /\ [][\A c \in Channels : \A id \in Ids :
          cancel_task(c, id) =>
            \A t \in tasks :
              obj[t].channelId # c =>
                t \in tasks' /\ obj'[t].status = obj[t].status]_vars
  /\ [](\A t \in tasks :
          (obj[t].status = "pending_cancellation" /\ obj[t].cancellationMessageTs # NoTs)
            => prompts[obj[t].cancellationMessageTs] = obj[t].channelId)

\* C38: once the post of a task's approval prompt has failed (the task was
\* given an id, no approval prompt of it exists and its handler is no longer
\* suspended in the post), the task is out of the registry, no approval
\* timeout and no scheduling timer of it is armed or was ever armed, it is
\* not active, nothing executes it, and no request or approval of it is in
\* the audit log; this holds from then on
C38_FailedApprovalPostLeavesNothing ==
  \A t \in Ids :
    (/\ t <= taskCounter
     /\ prompts[<<t, 0>>] = 0
     /\ \A p \in posting : ~(p.op = "schedule" /\ p.id = t))
      => /\ t \notin tasks
         /\ ~obj[t].approvalTimeout /\ obj[t].strayTimeouts = 0
         /\ obj[t].armed = 0 /\ obj[t].timer # "live" /\ obj[t].stray = 0
         /\ obj[t].status \notin {"active", "pending_cancellation"}
         /\ ~obj[t].isRunning /\ InFlight(TaskCaller(t)) = 0
         /\ \A e \in audit : e[2] # t

\* C38 witness: the approval post of a task has failed and the handler has
\* returned, while a query is running whose agent can still name the task
C38_Witness ==
  \E t \in Ids :
    /\ t <= taskCounter /\ prompts[<<t, 0>>] = 0
    /\ \A p \in posting : p.id # t
    /\ t \notin tasks
    /\ \E c \in Channels : Querying(MsgCaller(c))

\* C39 (as claimed): when the post of a cancellation prompt fails, the task
\* is registered and back in status active, its scheduling timer is armed,
\* no cancellation timeout is armed and no correlation handle is stored
C39_FailedPostBackToActiveAndArmed ==
  [][\A p \in posting :
       (p.op = "cancel" /\ cancel_task_posted(p, FALSE)) =>
         /\ p.id \in tasks' /\ obj'[p.id].status = "active"
         /\ obj'[p.id].timer = "live"
         /\ ~obj'[p.id].cancellationTimeout
         /\ obj'[p.id].cancellationMessageTs = NoTs]_vars

\* C39 (amended): when the post of a cancellation prompt fails, the registry
\* is as it was, no cancellation timeout is armed and no correlation handle
\* is stored; if the task is still registered it is back in status active
\* and its scheduling timer is as it was before the failure, which is armed
\* for every task but a one-time task; a task removed meanwhile stays removed
C39_FailedPostRevertsRegisteredTask ==
  [][\A p \in posting :
       (p.op = "cancel" /\ cancel_task_posted(p, FALSE)) =>
         /\ tasks' = tasks
         /\ ~obj'[p.id].cancellationTimeout /\ obj'[p.id].strayTimeouts = 0
         /\ obj'[p.id].cancellationMessageTs = NoTs
         /\ p.id \in tasks =>
              /\ obj'[p.id].status = "active"
              /\ obj'[p.id].timer = obj[p.id].timer
              /\ obj'[p.id].armed = obj[p.id].armed
              /\ obj[p.id].scheduleType # "once" => obj'[p.id].timer = "live"]_vars

\* C39 witness: the post of a task's cancellation prompt has failed, the
\* handler has returned, and the task is registered, active and armed with
\* no cancellation prompt, handle or timeout
C39_Witness ==
  \E t \in tasks :
    /\ <<"cancellation_prompt", t>> \in lost
    /\ \A p \in posting : p.id # t
    /\ obj[t].status = "active" /\ obj[t].timer = "live"
    /\ Rounds(t) = 0 /\ ~obj[t].cancellationTimeout
    /\ obj[t].cancellationMessageTs = NoTs

====
